---- MODULE Spec2Model ----
(***************************************************************************)
(* A model of the process orchestration of rv (Rapid-Vision/rv):           *)
(*   - utils.SplitTaskBetweenProcs, the task partitioner;                  *)
(*   - utils.GetSequentialOutputDir, the output directory sequencer;       *)
(*   - render.Render and preview.Preview with utils.WaitCmdBuff/WaitCmd,   *)
(*     the process supervisor.                                             *)
(* Three specifications share the variables: Spec (the supervisor),        *)
(* SpecSplit (the partitioner on bounded inputs) and SpecSeq (the          *)
(* sequencer on bounded directories).  A specification leaves the          *)
(* variables of the other two at their idle values.                        *)
(***************************************************************************)
EXTENDS Integers, Sequences, FiniteSets, TLC

VARIABLES
    \* ---- partitioner (SpecSplit)
    splitPc,      \* "idle" | "args" | "one" | "all"
    splitN,       \* argument n (total units)
    splitP,       \* argument p (worker count)
    splitI,       \* argument i (worker index)
    splitOut,     \* result of one call: [panic, val]
    splitParts,   \* results of the calls i = 0..p-1, as Render's loop makes them
    \* ---- sequencer (SpecSeq)
    seqPc,        \* "idle" | "args" | "returned" | "started"
    seqRuns,      \* invocations against the base directory so far
    fsExists,     \* the base directory exists
    fsEntries,    \* names of the entries of the base directory
    seqOut,       \* result of the call: [err, name]
    \* ---- supervisor (Spec)
    mode,         \* "render" | "preview"
    pc,           \* position of the main control flow
    imgNum,       \* Render's argument imgNum
    procsArg,     \* Render's argument procs, as passed
    procs,        \* Render's local procs, after lines 49-55
    cmdBuff,      \* started commands, in start order: [idx, number]
    proc,         \* per process: "none" | "running" | "exited" | "reaped"
    procErr,      \* per process: "none" | "ok" | "err" (what Wait returns)
    waiter,       \* per wait goroutine: "none" | "waiting" | "sending" | "done"
    waitCh,       \* buffered completion channel: sequence of [idx, err]
    waitCap,      \* capacity of the completion channel
    notified,     \* signal.Notify(sigCh, ...) has run
    sigCh,        \* number of signals buffered in sigCh (capacity 1)
    interrupts,   \* interrupts delivered to sigCh so far
    loopI,        \* Render's wait loop counter i
    sigRecv,      \* interrupts the select has consumed
    sigCount,     \* per process: SIGTERM dispatch attempts
    sigErr,       \* the processes a dispatch attempt to which returned an error
    consumed,     \* completion events the select has consumed: set of [idx, err]
    ctxCanceled,  \* Preview's context has been canceled
    watcher,      \* Preview's watcher goroutine: "off" | "watching" | "returned"
    exitStatus,   \* -1 while running, else the program's exit status
    \* ---- watcher and reload client (SpecWatch)
    wPc,          \* "idle" | "setup" | "loop" | "callback" | "returned"
    wPort,        \* the port of the preview client
    wCtxDone,     \* ctx.Done() is closed
    wEvents,      \* events ready on w.Events, oldest first: [op, name]
    wErr,         \* w.Errors: "none" | "ready" | "taken" by the select
    wMade,        \* events the notification library has produced so far
    wSeen,        \* events the select has taken, oldest first
    wCalls,       \* callback invocations so far
    wReqs,        \* requests sent by requestRerun: [host, port, path, failed]
    wRet,         \* "none" | "nil" | "setupErr" | "watchErr": what WatchFile returned
    \* ---- port allocation of concurrent preview invocations (SpecPort)
    portPc,       \* per invocation: "idle" | "start" | "listening" | "got" |
                  \*   "serving" | "bindFailed" | "fatal" | "done"
    portOf,       \* per invocation: the port GetPort returned, 0 before
    portBound     \* per port: who holds it bound, [kind, inv]

splitVars == <<splitPc, splitN, splitP, splitI, splitOut, splitParts>>
seqVars   == <<seqPc, seqRuns, fsExists, fsEntries, seqOut>>
supVars   == <<mode, pc, imgNum, procsArg, procs, cmdBuff, proc, procErr, waiter,
               waitCh, waitCap, notified, sigCh, interrupts, loopI, sigRecv, sigCount,
               sigErr, consumed, ctxCanceled, watcher, exitStatus>>
watchVars == <<wPc, wPort, wCtxDone, wEvents, wErr, wMade, wSeen, wCalls,
               wReqs, wRet>>
portVars  == <<portPc, portOf, portBound>>
vars      == <<splitVars, seqVars, supVars, watchVars, portVars>>

(***************************************************************************)
(* Bounds of the model.                                                    *)
(***************************************************************************)
MaxUnits      == 10   \* largest totalUnits drawn for the partitioner
MaxWorkers    == 3    \* largest workerCount / procs drawn
MaxInterrupts == 2    \* interrupts delivered in one run
IntBits       == 5    \* width the model gives Go's int64 (scaled down from 64)
MaxRuns       == 2    \* invocations against one base directory
MaxEvents     == 3    \* filesystem events produced in one watch
MaxPorts      == 2    \* free ephemeral ports of the host
MaxPreviews   == 2    \* concurrent preview invocations

\* Sum of a sequence of integers.
RECURSIVE SumSeq(_)
SumSeq(s) == IF s = <<>> THEN 0 ELSE Head(s) + SumSeq(Tail(s))

Min(a, b) == IF a < b THEN a ELSE b

(***************************************************************************)
(* Go integer division and remainder: truncated toward zero, the           *)
(* remainder has the sign of the dividend.  Defined for b # 0; Go panics   *)
(* on b = 0.                                                               *)
(***************************************************************************)
Abs(a) == IF a < 0 THEN -a ELSE a

GoDiv(a, b) ==
    LET q == Abs(a) \div Abs(b)
    IN  IF (a < 0) = (b < 0) THEN q ELSE -q

GoMod(a, b) == a - b * GoDiv(a, b)

(***************************************************************************)
(* utils.SplitTaskBetweenProcs(n, p, i).  The result is [panic, val]:      *)
(* panic is TRUE when the call would divide by zero.                       *)
(***************************************************************************)
SplitNoRangeCheck(n, p, i) ==
    IF n <= 0 \/ i < 0
    THEN [panic |-> FALSE, val |-> 0]
    ELSE IF p = 0
    THEN [panic |-> TRUE, val |-> 0]
    ELSE [panic |-> FALSE,
          val |-> GoDiv(n, p) + (IF i < GoMod(n, p) THEN 1 ELSE 0)]

SplitOffByOne(n, p, i) ==
    IF n <= 0 \/ i < 0 \/ i >= p
    THEN [panic |-> FALSE, val |-> 0]
    ELSE IF p = 0
    THEN [panic |-> TRUE, val |-> 0]
    ELSE [panic |-> FALSE,
          val |-> GoDiv(n, p) + (IF i <= GoMod(n, p) THEN 1 ELSE 0)]

SplitExtraToLast(n, p, i) ==
    IF n <= 0 \/ i < 0 \/ i >= p
    THEN [panic |-> FALSE, val |-> 0]
    ELSE IF p = 0
    THEN [panic |-> TRUE, val |-> 0]
    ELSE [panic |-> FALSE,
          val |-> GoDiv(n, p) + (IF i >= p - GoMod(n, p) THEN 1 ELSE 0)]

SplitTaskBetweenProcs(n, p, i) ==
    IF n <= 0 \/ i < 0 \/ i >= p
    THEN [panic |-> FALSE, val |-> 0]
    ELSE IF p = 0
    THEN [panic |-> TRUE, val |-> 0]
    ELSE [panic |-> FALSE,
          val |-> GoDiv(n, p) + (IF i < GoMod(n, p) THEN 1 ELSE 0)]

(***************************************************************************)
(* SpecSplit: the partitioner on inputs drawn from bounded sets, valid and *)
(* invalid.                                                                *)
(***************************************************************************)
SplitUnits   == -1 .. MaxUnits
SplitWorkers == -1 .. MaxWorkers
SplitIndexes == -1 .. MaxWorkers

NoSplit == [panic |-> FALSE, val |-> -1]

SplitIdle ==
    /\ splitPc = "idle" /\ splitN = 0 /\ splitP = 0 /\ splitI = 0
    /\ splitOut = NoSplit /\ splitParts = <<>>

\* One call, as any caller makes it.
SplitCall ==
    /\ splitPc = "args"
    /\ splitOut' = SplitTaskBetweenProcs(splitN, splitP, splitI)
    /\ splitPc' = "one"
    /\ UNCHANGED <<splitN, splitP, splitI, splitParts>>

\* The calls for i = 0 .. p-1, as the loop of Render makes them.
SplitAll ==
    /\ splitPc = "args"
    /\ splitParts' = [k \in 1 .. splitP |->
                         SplitTaskBetweenProcs(splitN, splitP, k - 1).val]
    /\ splitPc' = "all"
    /\ UNCHANGED <<splitN, splitP, splitI, splitOut>>

SplitInit ==
    /\ splitPc = "args"
    /\ splitN \in SplitUnits
    /\ splitP \in SplitWorkers
    /\ splitI \in SplitIndexes
    /\ splitOut = NoSplit
    /\ splitParts = <<>>

(***************************************************************************)
(* The output directory sequencer.  An entry name is a tuple of            *)
(* characters.  int64 is modelled with IntBits bits.                       *)
(***************************************************************************)
MaxInt == 2^(IntBits - 1) - 1
MinInt == -(2^(IntBits - 1))

\* Two's complement wrap-around of Go's signed arithmetic.
WrapInt(x) == ((x - MinInt) % 2^IntBits) + MinInt

DigitChars == <<"0", "1", "2", "3", "4", "5", "6", "7", "8", "9">>
IsDigit(c) == \E d \in 1 .. 10 : DigitChars[d] = c
DigitVal(c) == (CHOOSE d \in 1 .. 10 : DigitChars[d] = c) - 1

\* The digits of s read as a decimal number, most significant first.
RECURSIVE DigitsValue(_, _)
DigitsValue(s, acc) ==
    IF s = <<>> THEN acc
    ELSE DigitsValue(Tail(s), acc * 10 + DigitVal(Head(s)))

(***************************************************************************)
(* strconv.ParseInt(s, 10, 64): an optional sign, then one or more decimal *)
(* digits; a syntax error otherwise, a range error when the value does not *)
(* fit the width.  The result is [err, val].                               *)
(***************************************************************************)
ParseInt(s) ==
    LET signed == s # <<>> /\ Head(s) \in {"+", "-"}
        neg    == s # <<>> /\ Head(s) = "-"
        digits == IF signed THEN Tail(s) ELSE s
    IN  IF digits = <<>> \/ \E k \in 1 .. Len(digits) : ~IsDigit(digits[k])
        THEN [err |-> TRUE, val |-> 0]
        ELSE LET un == DigitsValue(digits, 0)
             IN  IF (~neg /\ un > MaxInt) \/ (neg /\ un > -MinInt)
                 THEN [err |-> TRUE, val |-> 0]
                 ELSE [err |-> FALSE, val |-> IF neg THEN -un ELSE un]

\* The decimal digits of a natural number, without leading zeros.
RECURSIVE NatDigits(_)
NatDigits(v) ==
    IF v < 10 THEN <<DigitChars[v + 1]>>
    ELSE Append(NatDigits(v \div 10), DigitChars[(v % 10) + 1])

\* fmt.Sprint of an integer.
FormatInt(v) == IF v < 0 THEN <<"-">> \o NatDigits(-v) ELSE NatDigits(v)

\* The loop of GetSequentialOutputDir over the directory's entries.
RECURSIVE ScanMax(_, _)
ScanMax(files, maxVal) ==
    IF files = {} THEN maxVal
    ELSE LET file == CHOOSE f \in files : TRUE
             r    == ParseInt(file)
         IN  ScanMax(files \ {file},
                     IF ~r.err /\ r.val > maxVal THEN r.val ELSE maxVal)

NoSeq == [err |-> FALSE, name |-> <<>>]

SeqIdle ==
    /\ seqPc = "idle" /\ seqRuns = 0
    /\ fsExists = FALSE /\ fsEntries = {} /\ seqOut = NoSeq

(***************************************************************************)
(* utils.GetSequentialOutputDir(output_dir).  mkdirFails and readFails     *)
(* are the outcomes of os.MkdirAll and os.ReadDir.  The returned path is   *)
(* output_dir joined with seqOut.name.                                     *)
(***************************************************************************)
GetSequentialOutputDir(mkdirFails, readFails) ==
    /\ seqPc = "args"
    /\ seqPc' = "returned"
    /\ seqRuns' = seqRuns + 1
    /\ IF ~fsExists /\ mkdirFails
       THEN /\ seqOut' = [err |-> TRUE, name |-> <<>>]
            /\ UNCHANGED <<fsExists, fsEntries>>
       ELSE /\ fsExists' = TRUE
            /\ UNCHANGED fsEntries
            /\ IF readFails
               THEN seqOut' = [err |-> TRUE, name |-> <<>>]
               ELSE seqOut' = [err |-> FALSE,
                               name |-> FormatInt(WrapInt(ScanMax(fsEntries, 0) + 1))]

SeqCall == \E mkdirFails, readFails \in BOOLEAN :
               GetSequentialOutputDir(mkdirFails, readFails)

\* The engine, passed --output <base>/<name>, creates the slot (complete or
\* partially written).
SeqEngineCreates ==
    /\ seqPc = "returned" /\ ~seqOut.err
    /\ fsEntries' = fsEntries \cup {seqOut.name}
    /\ seqPc' = "started"
    /\ UNCHANGED <<seqRuns, fsExists, seqOut>>

\* Between two invocations an entry of the base directory is deleted.
SeqDelete(nm) ==
    /\ seqPc = "started" /\ nm \in fsEntries
    /\ fsEntries' = fsEntries \ {nm}
    /\ UNCHANGED <<seqPc, seqRuns, fsExists, seqOut>>

\* Another invocation against the same base directory, after the earlier
\* one has ended.
SeqAgain ==
    /\ seqPc \in {"returned", "started"} /\ seqRuns < MaxRuns
    /\ seqPc' = "args"
    /\ seqOut' = NoSeq
    /\ UNCHANGED <<seqRuns, fsExists, fsEntries>>

\* The entry names the directories are drawn from.
EntryNames == {
    <<"1">>, <<"2">>, <<"5">>, <<"f", "o", "o">>,
    <<"0", "5">>, <<"+", "7">>, <<"-", "3">>, <<"1", "f">>,
    FormatInt(MaxInt), FormatInt(MaxInt + 1) }

SeqInit ==
    /\ seqPc = "args"
    /\ seqRuns = 0
    /\ fsExists \in BOOLEAN
    /\ fsEntries \in SUBSET EntryNames
    /\ (~fsExists => fsEntries = {})
    /\ seqOut = NoSeq

(***************************************************************************)
(* The process supervisor: render.Render, preview.Preview, and the wait    *)
(* goroutines of utils.WaitCmdBuff and utils.WaitCmd.                      *)
(* Process k of the model is cmdBuff[k-1] of the code.  The wait goroutine *)
(* of WaitCmdBuff started in iteration i awaits buff[i]: the loop variable *)
(* is per iteration (Go 1.22 and later).                                   *)
(***************************************************************************)
ProcIds == 1 .. MaxWorkers

SigChCap == 1

SupIdle ==
    /\ mode = "idle" /\ pc = "idle" /\ imgNum = 0 /\ procsArg = 0 /\ procs = 0
    /\ cmdBuff = <<>>
    /\ proc = [k \in ProcIds |-> "none"]
    /\ procErr = [k \in ProcIds |-> "none"]
    /\ waiter = [k \in ProcIds |-> "none"]
    /\ waitCh = <<>> /\ waitCap = 0
    /\ notified = FALSE /\ sigCh = 0 /\ interrupts = 0
    /\ loopI = 0 /\ sigRecv = 0
    /\ sigCount = [k \in ProcIds |-> 0]
    /\ sigErr = {}
    /\ consumed = {}
    /\ ctxCanceled = FALSE /\ watcher = "off"
    /\ exitStatus = -1

\* The values of imgNum drawn: invalid ones, one that is fewer units than
\* the larger worker counts, and one that leaves a remainder.
ImgNums == {-1, 0, 2, 2 * MaxWorkers + 1}

SupInit ==
    /\ mode \in {"render", "preview"}
    /\ pc = IF mode = "render" THEN "r_setup" ELSE "p_setup"
    /\ imgNum \in (IF mode = "render" THEN ImgNums ELSE {0})
    /\ procsArg \in (IF mode = "render" THEN -1 .. MaxWorkers ELSE {0})
    /\ procs = procsArg
    /\ cmdBuff = <<>>
    /\ proc = [k \in ProcIds |-> "none"]
    /\ procErr = [k \in ProcIds |-> "none"]
    /\ waiter = [k \in ProcIds |-> "none"]
    /\ waitCh = <<>> /\ waitCap = 0
    /\ notified = FALSE /\ sigCh = 0 /\ interrupts = 0
    /\ loopI = 0 /\ sigRecv = 0
    /\ sigCount = [k \in ProcIds |-> 0]
    /\ sigErr = {}
    /\ consumed = {}
    /\ ctxCanceled = FALSE /\ watcher = "off"
    /\ exitStatus = -1

\* logs.Err.Fatalln: the program exits with status 1; started engine
\* processes are left as they are.
Fatal ==
    /\ pc' = "fatal"
    /\ exitStatus' = 1

\* Render, lines 16-41: the paths and the output directory; any failure is fatal.
RenderSetup ==
    /\ mode = "render" /\ pc = "r_setup"
    /\ \E ok \in BOOLEAN :
          IF ok THEN pc' = "r_check" /\ UNCHANGED exitStatus ELSE Fatal
    /\ UNCHANGED <<imgNum, procsArg, procs, cmdBuff, proc, procErr, waiter, waitCh,
                   waitCap, notified, sigCh, interrupts, loopI, sigRecv,
                   sigCount, sigErr, consumed, ctxCanceled, watcher, mode>>

\* Render, lines 49-55: the value of procs the loops use.
NormalizeProcsNoClamp(n, p) == IF p < 0 THEN 1 ELSE p

NormalizeProcs(n, p) ==
    LET p1 == IF p < 0 THEN 1 ELSE p
    IN  IF n < p1 THEN n ELSE p1

\* Render, lines 45-55.
RenderCheck ==
    /\ mode = "render" /\ pc = "r_check"
    /\ IF imgNum < 1
       THEN Fatal /\ UNCHANGED <<procs, loopI>>
       ELSE /\ procs' = NormalizeProcs(imgNum, procsArg)
            /\ loopI' = 0
            /\ pc' = "r_spawn"
            /\ UNCHANGED exitStatus
    /\ UNCHANGED <<imgNum, procsArg, cmdBuff, proc, procErr, waiter, waitCh,
                   waitCap, notified, sigCh, interrupts, sigRecv,
                   sigCount, sigErr, consumed, ctxCanceled, watcher, mode>>

\* A start loop that sends SIGTERM to the workers already started when a
\* start fails.
StartWorkerRollback ==
    /\ mode = "render" /\ pc = "r_spawn" /\ loopI < procs
    /\ LET part == SplitTaskBetweenProcs(imgNum, procs, loopI)
       IN  \E started \in BOOLEAN :
              IF part.panic
              THEN /\ pc' = "panic" /\ exitStatus' = 2
                   /\ UNCHANGED <<cmdBuff, proc, loopI, sigCount>>
              ELSE IF ~started
              THEN /\ Fatal
                   /\ sigCount' = [k \in ProcIds |->
                                     IF k <= loopI THEN sigCount[k] + 1 ELSE sigCount[k]]
                   /\ UNCHANGED <<cmdBuff, proc, loopI>>
              ELSE /\ cmdBuff' = Append(cmdBuff, [idx |-> loopI, number |-> part.val])
                   /\ proc' = [proc EXCEPT ![loopI + 1] = "running"]
                   /\ loopI' = loopI + 1
                   /\ UNCHANGED <<pc, exitStatus, sigCount>>
    /\ UNCHANGED <<imgNum, procsArg, procs, procErr, waiter, waitCh,
                   waitCap, notified, sigCh, interrupts, sigRecv,
                   sigErr, consumed, ctxCanceled, watcher, mode>>

\* Render, lines 57-83: one iteration of the start loop.  started is the
\* outcome of cmd.Start().
StartWorker ==
    /\ mode = "render" /\ pc = "r_spawn" /\ loopI < procs
    /\ LET part == SplitTaskBetweenProcs(imgNum, procs, loopI)
       IN  \E started \in BOOLEAN :
              IF part.panic
              THEN /\ pc' = "panic" /\ exitStatus' = 2
                   /\ UNCHANGED <<cmdBuff, proc, loopI>>
              ELSE IF ~started
              THEN Fatal /\ UNCHANGED <<cmdBuff, proc, loopI>>
              ELSE /\ cmdBuff' = Append(cmdBuff, [idx |-> loopI, number |-> part.val])
                   /\ proc' = [proc EXCEPT ![loopI + 1] = "running"]
                   /\ loopI' = loopI + 1
                   /\ UNCHANGED <<pc, exitStatus>>
    /\ UNCHANGED <<imgNum, procsArg, procs, procErr, waiter, waitCh,
                   waitCap, notified, sigCh, interrupts, sigRecv,
                   sigCount, sigErr, consumed, ctxCanceled, watcher, mode>>

\* A WaitCmdBuff that starts the wait goroutine of the first process only.
WaitCmdBuffFirstOnly(buff) ==
    /\ waitCap' = Len(buff)
    /\ waitCh' = <<>>
    /\ waiter' = [k \in ProcIds |-> IF k = 1 /\ k <= Len(buff) THEN "waiting" ELSE waiter[k]]

\* A WaitCmdBuff whose channel has the capacity of WaitCmd's, one.
WaitCmdBuffCapOne(buff) ==
    /\ waitCap' = 1
    /\ waitCh' = <<>>
    /\ waiter' = [k \in ProcIds |-> IF k <= Len(buff) THEN "waiting" ELSE waiter[k]]

\* utils.WaitCmdBuff(buff): a channel of capacity len(buff) and one wait
\* goroutine per element.
WaitCmdBuff(buff) ==
    /\ waitCap' = Len(buff)
    /\ waitCh' = <<>>
    /\ waiter' = [k \in ProcIds |-> IF k <= Len(buff) THEN "waiting" ELSE waiter[k]]

\* Render, lines 85-89: signal.Notify and WaitCmdBuff, after the start loop.
RenderWatch ==
    /\ mode = "render" /\ pc = "r_spawn" /\ loopI >= procs
    /\ notified' = TRUE
    /\ WaitCmdBuff(cmdBuff)
    /\ loopI' = 0
    /\ pc' = "r_wait"
    /\ UNCHANGED <<imgNum, procsArg, procs, cmdBuff, proc, procErr,
                   sigCh, interrupts, sigRecv,
                   sigCount, sigErr, consumed, ctxCanceled, watcher, mode,
                   exitStatus>>

\* cmd.Process.Signal(SIGTERM) fails on a process that has already been
\* waited for; the callers drop the error.
SignalFails(k) == proc[k] = "reaped"

\* A signal loop that gives up at the first delivery error: the processes
\* 1..n that are sent SIGTERM.
SignalledStopOnError(n) ==
    {k \in 1 .. n : \A m \in 1 .. (k - 1) : ~SignalFails(m)}

\* Render, lines 97-99: the signal loop j = 0 .. procs-1 sends SIGTERM to
\* every cmdBuff[j]: the processes 1..n that are sent SIGTERM.
Signalled(n) == 1 .. n

\* The signal dispatch attempts, counted, and their dropped errors.
SignalTerm(ks) ==
    /\ sigCount' = [k \in ProcIds |-> IF k \in ks THEN sigCount[k] + 1 ELSE sigCount[k]]
    /\ sigErr' = sigErr \cup {k \in ks : SignalFails(k)}

\* Render, lines 93-99 and 92: the select takes the signal, every process
\* is sent SIGTERM, and the wait loop steps.
RenderRecvSignal ==
    /\ mode = "render" /\ pc = "r_wait" /\ loopI < procs
    /\ sigCh > 0
    /\ sigCh' = sigCh - 1
    /\ sigRecv' = sigRecv + 1
    /\ SignalTerm(Signalled(procs))
    /\ loopI' = loopI + 1
    /\ UNCHANGED <<imgNum, procsArg, procs, cmdBuff, proc, procErr, waiter, waitCh,
                   waitCap, notified, interrupts,
                   consumed, ctxCanceled, watcher, mode, pc, exitStatus>>

\* A wait loop that stops waiting at the first failed worker.
RenderRecvWaitAbortOnError ==
    /\ mode = "render" /\ pc = "r_wait" /\ loopI < procs
    /\ waitCh # <<>>
    /\ consumed' = consumed \cup {Head(waitCh)}
    /\ waitCh' = Tail(waitCh)
    /\ loopI' = IF Head(waitCh).err = "err" THEN procs ELSE loopI + 1
    /\ UNCHANGED <<imgNum, procsArg, procs, cmdBuff, proc, procErr, waiter,
                   waitCap, notified, sigCh, interrupts, sigRecv,
                   sigCount, sigErr, ctxCanceled, watcher, mode, pc, exitStatus>>

\* Render, lines 100-105 and 92: the select takes a completion event and
\* logs it; the wait loop steps.
RenderRecvWait ==
    /\ mode = "render" /\ pc = "r_wait" /\ loopI < procs
    /\ waitCh # <<>>
    /\ consumed' = consumed \cup {Head(waitCh)}
    /\ waitCh' = Tail(waitCh)
    /\ loopI' = loopI + 1
    /\ UNCHANGED <<imgNum, procsArg, procs, cmdBuff, proc, procErr, waiter,
                   waitCap, notified, sigCh, interrupts, sigRecv,
                   sigCount, sigErr, ctxCanceled, watcher, mode, pc, exitStatus>>

\* Render, lines 92 and 108: the wait loop ends and Render returns; the
\* command's Run returns and the program exits with status 0.
RenderReturn ==
    /\ mode = "render" /\ pc = "r_wait" /\ loopI >= procs
    /\ pc' = "done"
    /\ exitStatus' = 0
    /\ UNCHANGED <<imgNum, procsArg, procs, cmdBuff, proc, procErr, waiter, waitCh,
                   waitCap, notified, sigCh, interrupts, loopI, sigRecv,
                   sigCount, sigErr, consumed, ctxCanceled, watcher, mode>>

(***************************************************************************)
(* The environment and the wait goroutines.  They run while the program    *)
(* runs.                                                                   *)
(***************************************************************************)
Running == exitStatus = -1

\* An engine process exits, cleanly ("ok") or not ("err").
ProcExit(k, e) ==
    /\ Running /\ proc[k] = "running"
    /\ proc' = [proc EXCEPT ![k] = "exited"]
    /\ procErr' = [procErr EXCEPT ![k] = e]
    /\ UNCHANGED <<imgNum, procsArg, procs, cmdBuff, waiter, waitCh,
                   waitCap, notified, sigCh, interrupts, loopI, sigRecv,
                   sigCount, sigErr, consumed, ctxCanceled, watcher, mode, pc,
                   exitStatus>>

\* The wait goroutine of process k: c.Wait() returns.
WaitReturn(k) ==
    /\ Running /\ waiter[k] = "waiting" /\ proc[k] = "exited"
    /\ proc' = [proc EXCEPT ![k] = "reaped"]
    /\ waiter' = [waiter EXCEPT ![k] = "sending"]
    /\ UNCHANGED <<imgNum, procsArg, procs, cmdBuff, procErr, waitCh,
                   waitCap, notified, sigCh, interrupts, loopI, sigRecv,
                   sigCount, sigErr, consumed, ctxCanceled, watcher, mode, pc,
                   exitStatus>>

\* The wait goroutine of process k: ch <- err, which blocks while the
\* channel is full.
WaitSend(k) ==
    /\ Running /\ waiter[k] = "sending" /\ Len(waitCh) < waitCap
    /\ waitCh' = Append(waitCh, [idx |-> k, err |-> procErr[k]])
    /\ waiter' = [waiter EXCEPT ![k] = "done"]
    /\ UNCHANGED <<imgNum, procsArg, procs, cmdBuff, proc, procErr,
                   waitCap, notified, sigCh, interrupts, loopI, sigRecv,
                   sigCount, sigErr, consumed, ctxCanceled, watcher, mode, pc,
                   exitStatus>>

\* The operator interrupts the program: os/signal sends to sigCh without
\* blocking.  (With the channel full the signal is dropped and nothing
\* changes: a stuttering step.)
Interrupt ==
    /\ Running /\ notified /\ interrupts < MaxInterrupts
    /\ sigCh < SigChCap
    /\ interrupts' = interrupts + 1
    /\ sigCh' = sigCh + 1
    /\ UNCHANGED <<imgNum, procsArg, procs, cmdBuff, proc, procErr, waiter, waitCh,
                   waitCap, loopI, sigRecv, notified,
                   sigCount, sigErr, consumed, ctxCanceled, watcher, mode, pc,
                   exitStatus>>

(***************************************************************************)
(* preview.Preview: one engine process, one watcher goroutine.             *)
(***************************************************************************)
\* Preview, lines 18-51: the paths, the port and the script; any failure is fatal.
PreviewSetup ==
    /\ mode = "preview" /\ pc = "p_setup"
    /\ \E ok \in BOOLEAN :
          IF ok THEN pc' = "p_start" /\ UNCHANGED exitStatus ELSE Fatal
    /\ UNCHANGED <<imgNum, procsArg, procs, cmdBuff, proc, procErr, waiter, waitCh,
                   waitCap, notified, sigCh, interrupts, loopI, sigRecv,
                   sigCount, sigErr, consumed, ctxCanceled, watcher, mode>>

\* utils.WaitCmd(c): a channel of capacity 1 and one wait goroutine.
WaitCmd(k) ==
    /\ waitCap' = 1
    /\ waitCh' = <<>>
    /\ waiter' = [waiter EXCEPT ![k] = "waiting"]

\* Preview, lines 53-95: the engine starts, the watcher goroutine starts,
\* signal.Notify runs and the select is entered, which calls WaitCmd.
PreviewStart ==
    /\ mode = "preview" /\ pc = "p_start"
    /\ \E started \in BOOLEAN :
          IF ~started
          THEN /\ Fatal
               /\ UNCHANGED <<cmdBuff, proc, procs, watcher, notified, waitCap,
                              waitCh, waiter>>
          ELSE /\ cmdBuff' = <<[idx |-> 0, number |-> 0]>>
               /\ proc' = [proc EXCEPT ![1] = "running"]
               /\ procs' = 1
               /\ watcher' = "watching"
               /\ notified' = TRUE
               /\ WaitCmd(1)
               /\ pc' = "p_select"
               /\ UNCHANGED exitStatus
    /\ UNCHANGED <<imgNum, procsArg, procErr, sigCh, interrupts, loopI,
                   sigRecv, sigCount, sigErr, consumed, ctxCanceled, mode>>

\* Preview, lines 92-94: the select takes the signal and the engine is
\* sent SIGTERM.
PreviewRecvSignal ==
    /\ mode = "preview" /\ pc = "p_select"
    /\ sigCh > 0
    /\ sigCh' = sigCh - 1
    /\ sigRecv' = sigRecv + 1
    /\ SignalTerm({1})
    /\ pc' = "p_cancel"
    /\ UNCHANGED <<imgNum, procsArg, procs, cmdBuff, proc, procErr, waiter, waitCh,
                   waitCap, notified, interrupts, loopI,
                   consumed, ctxCanceled, watcher, mode, exitStatus>>

\* A select whose completion case returns at once, past cancel().
PreviewRecvWaitNoCancel ==
    /\ mode = "preview" /\ pc = "p_select"
    /\ waitCh # <<>>
    /\ consumed' = consumed \cup {Head(waitCh)}
    /\ waitCh' = Tail(waitCh)
    /\ pc' = "p_return"
    /\ UNCHANGED <<imgNum, procsArg, procs, cmdBuff, proc, procErr, waiter,
                   waitCap, notified, sigCh, interrupts, loopI, sigRecv,
                   sigCount, sigErr, ctxCanceled, watcher, mode, exitStatus>>

\* Preview, lines 95-100: the select takes the completion event.
PreviewRecvWait ==
    /\ mode = "preview" /\ pc = "p_select"
    /\ waitCh # <<>>
    /\ consumed' = consumed \cup {Head(waitCh)}
    /\ waitCh' = Tail(waitCh)
    /\ pc' = "p_cancel"
    /\ UNCHANGED <<imgNum, procsArg, procs, cmdBuff, proc, procErr, waiter,
                   waitCap, notified, sigCh, interrupts, loopI, sigRecv,
                   sigCount, sigErr, ctxCanceled, watcher, mode, exitStatus>>

\* Preview, line 103: cancel().
PreviewCancel ==
    /\ mode = "preview" /\ pc = "p_cancel"
    /\ ctxCanceled' = TRUE
    /\ pc' = "p_return"
    /\ UNCHANGED <<imgNum, procsArg, procs, cmdBuff, proc, procErr, waiter, waitCh,
                   waitCap, notified, sigCh, interrupts, loopI, sigRecv,
                   sigCount, sigErr, consumed, watcher, mode, exitStatus>>

\* Preview, line 104: Preview returns; the command's Run returns and the
\* program exits with status 0.
PreviewReturn ==
    /\ mode = "preview" /\ pc = "p_return"
    /\ pc' = "done"
    /\ exitStatus' = 0
    /\ UNCHANGED <<imgNum, procsArg, procs, cmdBuff, proc, procErr, waiter, waitCh,
                   waitCap, notified, sigCh, interrupts, loopI, sigRecv,
                   sigCount, sigErr, consumed, ctxCanceled, watcher, mode>>

\* The watcher goroutine: WatchFile sees ctx.Done() and returns nil.
WatcherStop ==
    /\ Running /\ watcher = "watching" /\ ctxCanceled
    /\ watcher' = "returned"
    /\ UNCHANGED <<imgNum, procsArg, procs, cmdBuff, proc, procErr, waiter, waitCh,
                   waitCap, notified, sigCh, interrupts, loopI, sigRecv,
                   sigCount, sigErr, consumed, ctxCanceled, mode, pc, exitStatus>>


(***************************************************************************)
(* watcher.WatchFile(ctx, path, callback) with the callback Preview passes *)
(* it, previewClient.requestRerun.                                         *)
(* An event is [op, name]: op is the fsnotify.Op bit mask, name the path   *)
(* the event reports.                                                      *)
(***************************************************************************)
\* fsnotify.Write, and the flags Remove and Chmod, one and three bits above it.
OpWrite  == 2
OpRemove == 2 * OpWrite
OpChmod  == 8 * OpWrite

\* The bitwise and of two naturals.
RECURSIVE BitAnd(_, _)
BitAnd(a, b) ==
    IF a = 0 \/ b = 0 THEN 0
    ELSE (a % 2) * (b % 2) + 2 * BitAnd(a \div 2, b \div 2)

\* abs, the absolute path of the watched file, and another file of its directory.
TargetPath == "/work/scene.py"
OtherPath  == "/work/other.py"

\* The events drawn: single operations and combined ones, on either file.
EventOps == {OpWrite, OpRemove, OpChmod, OpWrite + OpChmod}
Events == [op : EventOps, name : {TargetPath, OtherPath}]

\* The ports drawn for the preview client.
Ports == {8080, 49152}

WatchIdle ==
    /\ wPc = "idle" /\ wPort = 0 /\ wCtxDone = FALSE /\ wEvents = <<>>
    /\ wErr = "none" /\ wMade = 0 /\ wSeen = <<>> /\ wCalls = 0
    /\ wReqs = <<>> /\ wRet = "none"

\* Preview, lines 77-84: the client is made for the port and the watcher
\* goroutine calls WatchFile.
WatchInit ==
    /\ wPc = "setup" /\ wPort \in Ports /\ wCtxDone = FALSE /\ wEvents = <<>>
    /\ wErr = "none" /\ wMade = 0 /\ wSeen = <<>> /\ wCalls = 0
    /\ wReqs = <<>> /\ wRet = "none"

\* WatchFile, lines 11-24: the path is made absolute and its directory is
\* watched; a failure is returned.
WatchSetup ==
    /\ wPc = "setup"
    /\ \E ok \in BOOLEAN :
          IF ok THEN wPc' = "loop" /\ UNCHANGED wRet
          ELSE wPc' = "returned" /\ wRet' = "setupErr"
    /\ UNCHANGED <<wPort, wCtxDone, wEvents, wErr, wMade, wSeen, wCalls, wReqs>>

\* The notification library makes an event of the watched directory ready.
FsEvent(ev) ==
    /\ wPc \in {"loop", "callback"} /\ wMade < MaxEvents
    /\ wEvents' = Append(wEvents, ev)
    /\ wMade' = wMade + 1
    /\ UNCHANGED <<wPc, wPort, wCtxDone, wErr, wSeen, wCalls, wReqs, wRet>>

\* The notification library makes an error ready.
FsError ==
    /\ wPc \in {"loop", "callback"} /\ wErr = "none"
    /\ wErr' = "ready"
    /\ UNCHANGED <<wPc, wPort, wCtxDone, wEvents, wMade, wSeen, wCalls, wReqs, wRet>>

\* The caller cancels the context.
CtxCancel ==
    /\ wPc \in {"setup", "loop", "callback"} /\ ~wCtxDone
    /\ wCtxDone' = TRUE
    /\ UNCHANGED <<wPc, wPort, wEvents, wErr, wMade, wSeen, wCalls, wReqs, wRet>>

\* WatchFile, line 31: ev.Op&fsnotify.Write == fsnotify.Write && ev.Name == abs.
IsTargetWrite(ev) == BitAnd(ev.op, OpWrite) = OpWrite /\ ev.name = TargetPath

\* WatchFile, lines 28-29: the select takes ctx.Done() and WatchFile
\* returns nil.
WatchRecvDone ==
    /\ wPc = "loop" /\ wCtxDone
    /\ wPc' = "returned"
    /\ wRet' = "nil"
    /\ UNCHANGED <<wPort, wCtxDone, wEvents, wErr, wMade, wSeen, wCalls, wReqs>>

\* A loop that debounces: a write that follows a write at once is dropped.
WatchRecvEventDebounced ==
    /\ wPc = "loop" /\ wEvents # <<>>
    /\ wSeen' = Append(wSeen, Head(wEvents))
    /\ wEvents' = Tail(wEvents)
    /\ IF IsTargetWrite(Head(wEvents))
          /\ ~(wSeen # <<>> /\ wSeen[Len(wSeen)] = Head(wEvents))
       THEN wPc' = "callback" /\ wCalls' = wCalls + 1
       ELSE UNCHANGED <<wPc, wCalls>>
    /\ UNCHANGED <<wPort, wCtxDone, wErr, wMade, wReqs, wRet>>

\* A loop that ends when the watched file is removed.
WatchRecvEventStopOnRemove ==
    /\ wPc = "loop" /\ wEvents # <<>>
    /\ wSeen' = Append(wSeen, Head(wEvents))
    /\ wEvents' = Tail(wEvents)
    /\ IF IsTargetWrite(Head(wEvents))
       THEN wPc' = "callback" /\ wCalls' = wCalls + 1 /\ UNCHANGED wRet
       ELSE IF Head(wEvents) = [op |-> OpRemove, name |-> TargetPath]
       THEN wPc' = "returned" /\ wRet' = "nil" /\ UNCHANGED wCalls
       ELSE UNCHANGED <<wPc, wCalls, wRet>>
    /\ UNCHANGED <<wPort, wCtxDone, wErr, wMade, wReqs>>

\* WatchFile, lines 30-33: the select takes an event; a write of the
\* target calls the callback.
WatchRecvEvent ==
    /\ wPc = "loop" /\ wEvents # <<>>
    /\ wSeen' = Append(wSeen, Head(wEvents))
    /\ wEvents' = Tail(wEvents)
    /\ IF IsTargetWrite(Head(wEvents))
       THEN wPc' = "callback" /\ wCalls' = wCalls + 1
       ELSE UNCHANGED <<wPc, wCalls>>
    /\ UNCHANGED <<wPort, wCtxDone, wErr, wMade, wReqs, wRet>>

\* WatchFile, lines 34-35: the select takes an error and WatchFile returns it.
WatchRecvError ==
    /\ wPc = "loop" /\ wErr = "ready"
    /\ wErr' = "taken"
    /\ wPc' = "returned"
    /\ wRet' = "watchErr"
    /\ UNCHANGED <<wPort, wCtxDone, wEvents, wMade, wSeen, wCalls, wReqs>>

\* The request of requestRerun, line 17: POST http://127.0.0.1:<port>/rerun.
RerunRequest(failed) ==
    [host |-> "127.0.0.1", port |-> wPort, path |-> "/rerun", failed |-> failed]

\* A client that sends the request again after a transport failure.
RequestRerunRetrying(failed) ==
    /\ wPc = "callback"
    /\ wReqs' = IF failed
                THEN wReqs \o <<RerunRequest(TRUE), RerunRequest(FALSE)>>
                ELSE Append(wReqs, RerunRequest(FALSE))
    /\ wPc' = "loop"
    /\ UNCHANGED <<wPort, wCtxDone, wEvents, wErr, wMade, wSeen, wCalls, wRet>>

\* previewClient.requestRerun, lines 16-19: one http.Post, its response and
\* its error dropped; failed is whether the transport failed.
RequestRerun(failed) ==
    /\ wPc = "callback"
    /\ wReqs' = Append(wReqs, RerunRequest(failed))
    /\ wPc' = "loop"
    /\ UNCHANGED <<wPort, wCtxDone, wEvents, wErr, wMade, wSeen, wCalls, wRet>>


(***************************************************************************)
(* utils.GetPort and the start of the engine, for preview invocations      *)
(* that run at the same time on one host, and another process of the host. *)
(***************************************************************************)
PortIds  == 1 .. MaxPorts
Previews == 1 .. MaxPreviews

FreePort == [kind |-> "free", inv |-> 0]

PortIdle ==
    /\ portPc = [i \in Previews |-> "idle"]
    /\ portOf = [i \in Previews |-> 0]
    /\ portBound = [q \in PortIds |-> FreePort]

PortInit ==
    /\ portPc = [i \in Previews |-> "start"]
    /\ portOf = [i \in Previews |-> 0]
    /\ portBound \in [PortIds -> {FreePort, [kind |-> "other", inv |-> 0]}]

\* GetPort, lines 19-22: net.Listen("tcp", "127.0.0.1:0") binds a port the
\* kernel chooses among the free ones; with none free it fails and Preview
\* (lines 34-36) exits fatally.
GetPortListen(i) ==
    /\ portPc[i] = "start"
    /\ IF \E q \in PortIds : portBound[q] = FreePort
       THEN \E q \in PortIds :
               /\ portBound[q] = FreePort
               /\ portBound' = [portBound EXCEPT ![q] = [kind |-> "listener", inv |-> i]]
               /\ portOf' = [portOf EXCEPT ![i] = q]
               /\ portPc' = [portPc EXCEPT ![i] = "listening"]
       ELSE /\ portPc' = [portPc EXCEPT ![i] = "fatal"]
            /\ UNCHANGED <<portOf, portBound>>

\* GetPort, lines 23-24: the port number is returned and the deferred
\* l.Close() releases the port.
GetPortReturn(i) ==
    /\ portPc[i] = "listening"
    /\ portBound' = [portBound EXCEPT ![portOf[i]] = FreePort]
    /\ portPc' = [portPc EXCEPT ![i] = "got"]
    /\ UNCHANGED portOf

\* Preview, lines 54-71: the engine is started with --port; it binds the
\* port, which fails when the port is bound already.
EngineBind(i) ==
    /\ portPc[i] = "got"
    /\ IF portBound[portOf[i]] = FreePort
       THEN /\ portBound' = [portBound EXCEPT ![portOf[i]] = [kind |-> "engine", inv |-> i]]
            /\ portPc' = [portPc EXCEPT ![i] = "serving"]
       ELSE /\ portPc' = [portPc EXCEPT ![i] = "bindFailed"]
            /\ UNCHANGED portBound
    /\ UNCHANGED portOf

\* The engine exits and its port is released.
EngineExit(i) ==
    /\ portPc[i] = "serving"
    /\ portBound' = [portBound EXCEPT ![portOf[i]] = FreePort]
    /\ portPc' = [portPc EXCEPT ![i] = "done"]
    /\ UNCHANGED portOf

\* Another process of the host binds a free port.
OtherBind(q) ==
    /\ portBound[q] = FreePort
    /\ portBound' = [portBound EXCEPT ![q] = [kind |-> "other", inv |-> 0]]
    /\ UNCHANGED <<portPc, portOf>>

(***************************************************************************)
(* The specifications.                                                     *)
(***************************************************************************)
Init == SupInit /\ SplitIdle /\ SeqIdle /\ WatchIdle /\ PortIdle

Next ==
    \/ (RenderSetup /\ UNCHANGED <<splitVars, seqVars, watchVars, portVars>>)
    \/ (RenderCheck /\ UNCHANGED <<splitVars, seqVars, watchVars, portVars>>)
    \/ (StartWorker /\ UNCHANGED <<splitVars, seqVars, watchVars, portVars>>)
    \/ (RenderWatch /\ UNCHANGED <<splitVars, seqVars, watchVars, portVars>>)
    \/ (RenderRecvSignal /\ UNCHANGED <<splitVars, seqVars, watchVars, portVars>>)
    \/ (RenderRecvWait /\ UNCHANGED <<splitVars, seqVars, watchVars, portVars>>)
    \/ (RenderReturn /\ UNCHANGED <<splitVars, seqVars, watchVars, portVars>>)
    \/ (PreviewSetup /\ UNCHANGED <<splitVars, seqVars, watchVars, portVars>>)
    \/ (PreviewStart /\ UNCHANGED <<splitVars, seqVars, watchVars, portVars>>)
    \/ (PreviewRecvSignal /\ UNCHANGED <<splitVars, seqVars, watchVars, portVars>>)
    \/ (PreviewRecvWait /\ UNCHANGED <<splitVars, seqVars, watchVars, portVars>>)
    \/ (PreviewCancel /\ UNCHANGED <<splitVars, seqVars, watchVars, portVars>>)
    \/ (PreviewReturn /\ UNCHANGED <<splitVars, seqVars, watchVars, portVars>>)
    \/ (WatcherStop /\ UNCHANGED <<splitVars, seqVars, watchVars, portVars>>)
    \/ (Interrupt /\ UNCHANGED <<splitVars, seqVars, watchVars, portVars>>)
    \/ (\E k \in ProcIds, e \in {"ok", "err"} :
           ProcExit(k, e) /\ UNCHANGED <<splitVars, seqVars, watchVars, portVars>>)
    \/ (\E k \in ProcIds : WaitReturn(k) /\ UNCHANGED <<splitVars, seqVars, watchVars, portVars>>)
    \/ (\E k \in ProcIds : WaitSend(k) /\ UNCHANGED <<splitVars, seqVars, watchVars, portVars>>)

Spec == Init /\ [][Next]_vars

SplitNext ==
    \/ (SplitCall /\ UNCHANGED <<seqVars, supVars, watchVars, portVars>>)
    \/ (SplitAll /\ UNCHANGED <<seqVars, supVars, watchVars, portVars>>)

InitSplit == SplitInit /\ SeqIdle /\ SupIdle /\ WatchIdle /\ PortIdle

SpecSplit == InitSplit /\ [][SplitNext]_vars

SeqNext ==
    \/ (SeqCall /\ UNCHANGED <<splitVars, supVars, watchVars, portVars>>)
    \/ (SeqEngineCreates /\ UNCHANGED <<splitVars, supVars, watchVars, portVars>>)
    \/ (\E nm \in fsEntries : SeqDelete(nm) /\ UNCHANGED <<splitVars, supVars, watchVars, portVars>>)
    \/ (SeqAgain /\ UNCHANGED <<splitVars, supVars, watchVars, portVars>>)

InitSeq == SeqInit /\ SplitIdle /\ SupIdle /\ WatchIdle /\ PortIdle

SpecSeq == InitSeq /\ [][SeqNext]_vars

WatchNext ==
    \/ (WatchSetup /\ UNCHANGED <<splitVars, seqVars, supVars, portVars>>)
    \/ (\E ev \in Events : FsEvent(ev) /\ UNCHANGED <<splitVars, seqVars, supVars, portVars>>)
    \/ (FsError /\ UNCHANGED <<splitVars, seqVars, supVars, portVars>>)
    \/ (CtxCancel /\ UNCHANGED <<splitVars, seqVars, supVars, portVars>>)
    \/ (WatchRecvDone /\ UNCHANGED <<splitVars, seqVars, supVars, portVars>>)
    \/ (WatchRecvEvent /\ UNCHANGED <<splitVars, seqVars, supVars, portVars>>)
    \/ (WatchRecvError /\ UNCHANGED <<splitVars, seqVars, supVars, portVars>>)
    \/ (\E failed \in BOOLEAN :
           RequestRerun(failed) /\ UNCHANGED <<splitVars, seqVars, supVars, portVars>>)

InitWatch == WatchInit /\ SplitIdle /\ SeqIdle /\ SupIdle /\ PortIdle

SpecWatch == InitWatch /\ [][WatchNext]_vars

\* The goroutine of WatchFile is scheduled, its select takes a ready case,
\* and the request of the callback comes back.
SpecWatchFair ==
    /\ InitWatch
    /\ [][WatchNext]_vars
    /\ WF_vars(WatchSetup /\ UNCHANGED <<splitVars, seqVars, supVars, portVars>>)
    /\ WF_vars(WatchRecvDone /\ UNCHANGED <<splitVars, seqVars, supVars, portVars>>)
    /\ WF_vars(\E failed \in BOOLEAN :
                 RequestRerun(failed) /\ UNCHANGED <<splitVars, seqVars, supVars, portVars>>)

\* A step of Render's wait loop, of a wait goroutine, or the exit of a
\* launched process.
WaitProgress ==
    \/ RenderRecvSignal \/ RenderRecvWait \/ RenderReturn
    \/ \E k \in ProcIds :
          \/ WaitReturn(k) \/ WaitSend(k)
          \/ \E e \in {"ok", "err"} : ProcExit(k, e)

\* The goroutines are scheduled and every launched process exits in the
\* end: while one of these steps stays possible, one of them is taken.
\* This asks less than fairness of each goroutine by itself.
SpecFair ==
    /\ Init
    /\ [][Next]_vars
    /\ WF_vars(WaitProgress /\ UNCHANGED <<splitVars, seqVars, watchVars, portVars>>)

PortNext ==
    \/ (\E i \in Previews :
           GetPortListen(i) /\ UNCHANGED <<splitVars, seqVars, supVars, watchVars>>)
    \/ (\E i \in Previews :
           GetPortReturn(i) /\ UNCHANGED <<splitVars, seqVars, supVars, watchVars>>)
    \/ (\E i \in Previews :
           EngineBind(i) /\ UNCHANGED <<splitVars, seqVars, supVars, watchVars>>)
    \/ (\E i \in Previews :
           EngineExit(i) /\ UNCHANGED <<splitVars, seqVars, supVars, watchVars>>)
    \/ (\E q \in PortIds :
           OtherBind(q) /\ UNCHANGED <<splitVars, seqVars, supVars, watchVars>>)

InitPort == PortInit /\ SplitIdle /\ SeqIdle /\ SupIdle /\ WatchIdle

SpecPort == InitPort /\ [][PortNext]_vars

(***************************************************************************)
(* Properties of the partitioner (SpecSplit).                              *)
(***************************************************************************)
\* The floor of n/p for n >= 0 and p >= 1, by its defining inequality.
FloorOf(n, p) == CHOOSE q \in 0 .. n : q * p <= n /\ n < (q + 1) * p

\* C7: for totalUnits >= 1 and 1 <= workerCount <= totalUnits the units of
\* the indices 0..workerCount-1 sum to totalUnits, any two differ by at
\* most 1, and each lies between the floor and the ceiling of
\* totalUnits/workerCount.
C7_SumAndBalance ==
    (splitPc = "all" /\ splitN >= 1 /\ 1 <= splitP /\ splitP <= splitN) =>
        /\ Len(splitParts) = splitP
        /\ SumSeq(splitParts) = splitN
        /\ \A a, b \in 1 .. splitP :
              splitParts[a] - splitParts[b] <= 1
        /\ \A a \in 1 .. splitP :
              /\ splitN < (splitParts[a] + 1) * splitP
              /\ (splitParts[a] - 1) * splitP < splitN

C7_Witness ==
    /\ splitPc = "all" /\ splitN = 7 /\ splitP = 3
    /\ splitParts = <<3, 2, 2>>

\* C8: for totalUnits >= 1, workerCount >= 1 and an index in range the
\* result is floor(totalUnits/workerCount), plus one exactly when the index
\* is below totalUnits mod workerCount; over the indices the units never
\* increase; 10 units over 3 workers are <<4, 3, 3>>.
C8_FloorPlusRemainder ==
    /\ (splitPc = "one" /\ splitN >= 1 /\ splitP >= 1
            /\ 0 <= splitI /\ splitI < splitP) =>
          LET q == FloorOf(splitN, splitP)
              r == splitN - q * splitP
          IN  /\ ~splitOut.panic
              /\ splitOut.val = q + (IF splitI < r THEN 1 ELSE 0)
    /\ (splitPc = "all" /\ splitN >= 1 /\ splitP >= 1) =>
          /\ \A a, b \in 1 .. splitP : a < b => splitParts[a] >= splitParts[b]
          /\ (splitN = 10 /\ splitP = 3) => splitParts = <<4, 3, 3>>

C8_Witness ==
    /\ splitPc = "all" /\ splitN = 10 /\ splitP = 3
    /\ splitParts = <<4, 3, 3>>

\* C9: on an invalid input (totalUnits <= 0, workerCount <= 0, a negative
\* index, or an index >= workerCount) the result is 0 and the call does not
\* divide by zero.
C9_InvalidInputZero ==
    (splitPc = "one"
        /\ (splitN <= 0 \/ splitP <= 0 \/ splitI < 0 \/ splitI >= splitP)) =>
        /\ ~splitOut.panic
        /\ splitOut.val = 0

C9_Witness ==
    /\ splitPc = "one" /\ splitN > 0 /\ splitP = 0 /\ splitI = 0
    /\ splitOut = [panic |-> FALSE, val |-> 0]

(***************************************************************************)
(* Properties of the supervisor (Spec).                                    *)
(***************************************************************************)
Launched == 1 .. Len(cmdBuff)

Numbers == [k \in Launched |-> cmdBuff[k].number]

\* The processes whose completion event the supervisor has consumed.
Awaited == {e.idx : e \in consumed}

Returned == pc = "done"

\* C1: in render mode, when no interrupt has been received, Render returns
\* only after it has consumed one completion event of each launched
\* process; up to then no process has been sent a termination signal,
\* whatever the exit status of the others.
C1_AllAwaitedWithoutInterrupt ==
    (mode = "render" /\ sigRecv = 0) =>
        /\ \A k \in ProcIds : sigCount[k] = 0
        /\ Returned =>
              /\ Len(cmdBuff) = procs
              /\ Awaited = Launched
              /\ Cardinality(consumed) = procs
              /\ \A k \in Launched : proc[k] = "reaped"

C1_Witness ==
    /\ mode = "render" /\ Returned /\ sigRecv = 0 /\ procs = 3
    /\ Cardinality({e \in consumed : e.err = "err"}) = 1
    /\ Cardinality({e \in consumed : e.err = "ok"}) = 2

\* C2: once an interrupt has been received and the termination signal
\* dispatched, the orchestration (Render, Preview) does not return before
\* every process it owns has exited and its completion event has been
\* consumed.
C2_WaitRunsToCompletionAfterInterrupt ==
    (Returned /\ sigRecv >= 1) =>
        \A k \in Launched : proc[k] = "reaped" /\ k \in Awaited

\* C3: a second interrupt taken while the supervisor is already canceling
\* dispatches no further termination signal, produces no error and leaves
\* the number of completions still awaited as it was.
C3_SecondInterruptIsNoOp ==
    [][(sigRecv >= 1 /\ sigRecv' = sigRecv + 1) =>
          /\ sigCount' = sigCount
          /\ procs' - loopI' = procs - loopI
          /\ pc' \notin {"fatal", "panic"}]_vars

\* C4: in render mode every interrupt received has sent a termination
\* signal to every launched process 0..procs-1, also to those that had
\* exited; a failed delivery is dropped, neither ending the program nor
\* keeping the signal from the remaining processes.
C4_InterruptSignalsEveryProcess ==
    (mode = "render" /\ pc \in {"r_wait", "done"}) =>
        /\ Len(cmdBuff) = procs
        /\ \A k \in Launched : sigCount[k] = sigRecv
        /\ \A k \in sigErr : k \in Launched /\ sigCount[k] >= 1

C4_Witness ==
    /\ mode = "render" /\ sigRecv = 1 /\ procs = 3
    /\ sigErr = {1}
    /\ sigCount[2] = 1 /\ sigCount[3] = 1
    /\ proc[3] = "running"

\* C5: a render invocation ends successfully only if every launched
\* process exited cleanly: with all exits clean the outcome is success,
\* with exactly one worker exiting non-zero it is failure.
C5_OutcomeFailsWhenAWorkerFails ==
    (mode = "render" /\ Returned /\ sigRecv = 0) =>
        (exitStatus = 0 <=> \A k \in Launched : procErr[k] = "ok")

\* C6: with imgNum >= 1 and procs >= 1 Render launches min(procs, imgNum)
\* processes in ascending worker index, worker i with
\* --number = SplitTaskBetweenProcs(imgNum, min(procs, imgNum), i); every
\* number is at least 1 and they sum to imgNum; 7 images over 3 processes
\* are <<3, 2, 2>>.
C6_LaunchesMinProcsWithShares ==
    (mode = "render" /\ imgNum >= 1 /\ procsArg >= 1) =>
        LET w == Min(procsArg, imgNum)
        IN  /\ Len(cmdBuff) <= w
            /\ \A k \in ProcIds : proc[k] # "none" <=> k \in Launched
            /\ \A k \in Launched :
                  /\ cmdBuff[k].idx = k - 1
                  /\ cmdBuff[k].number = SplitTaskBetweenProcs(imgNum, w, k - 1).val
                  /\ cmdBuff[k].number >= 1
            /\ pc \in {"r_wait", "done"} =>
                  /\ Len(cmdBuff) = w
                  /\ SumSeq(Numbers) = imgNum
                  /\ (imgNum = 7 /\ procsArg = 3) => Numbers = <<3, 2, 2>>

C6_Witness ==
    /\ mode = "render" /\ Returned /\ imgNum = 7 /\ procsArg = 3
    /\ Numbers = <<3, 2, 2>>

(***************************************************************************)
(* Properties of the sequencer (SpecSeq).                                  *)
(***************************************************************************)
\* A name that is a decimal integer: an optional sign and one or more digits.
IsDecimalName(nm) ==
    LET ds == IF nm # <<>> /\ Head(nm) \in {"+", "-"} THEN Tail(nm) ELSE nm
    IN  ds # <<>> /\ \A k \in 1 .. Len(ds) : IsDigit(ds[k])

\* The integer a decimal name denotes.
DecimalValue(nm) ==
    LET neg == Head(nm) = "-"
        ds  == IF Head(nm) \in {"+", "-"} THEN Tail(nm) ELSE nm
        RECURSIVE pow10(_)
        pow10(e) == IF e = 0 THEN 1 ELSE 10 * pow10(e - 1)
        RECURSIVE sum(_)
        sum(k) == IF k > Len(ds) THEN 0
                  ELSE DigitVal(ds[k]) * pow10(Len(ds) - k) + sum(k + 1)
    IN  IF neg THEN -sum(1) ELSE sum(1)

\* The largest number named by an entry, 0 when there is none above 0;
\* names that do not fit the integer width count as non-numeric.
LargestNumericName(entries) ==
    LET vals == {DecimalValue(nm) : nm \in {e \in entries : IsDecimalName(e)}}
        fit  == {v \in vals : MinInt <= v /\ v <= MaxInt} \cup {0}
    IN  CHOOSE v \in fit : \A u \in fit : u <= v

\* C10: GetSequentialOutputDir returns the base path joined with the
\* largest numeric entry name plus 1, non-numeric names ignored, and has
\* created the base directory; an empty or absent directory gives 1.
C10_NextAfterLargestName ==
    (seqPc = "returned" /\ ~seqOut.err) =>
        /\ fsExists
        /\ seqOut.name = FormatInt(LargestNumericName(fsEntries) + 1)

\* Below the largest representable integer the sequencer agrees with the
\* largest numeric name plus 1: 1 for an empty directory, 6 for
\* {1, 2, 5, foo}.
SeqAgreesBelowMaxInt ==
    (seqPc = "returned" /\ ~seqOut.err) =>
        /\ FormatInt(MaxInt) \notin fsEntries =>
              seqOut.name = FormatInt(LargestNumericName(fsEntries) + 1)
        /\ fsEntries = {} => seqOut.name = <<"1">>
        /\ fsEntries = {<<"1">>, <<"2">>, <<"5">>, <<"f", "o", "o">>} =>
              seqOut.name = <<"6">>

\* C11: over successive invocations against one base directory, with
\* slots deleted or left partially written in between, the returned name
\* is a positive integer, greater than every numeric entry name, and not
\* the name of an entry that exists.
C11_PicksFreeSlot ==
    (seqPc = "returned" /\ ~seqOut.err) =>
        /\ IsDecimalName(seqOut.name)
        /\ DecimalValue(seqOut.name) >= 1
        /\ DecimalValue(seqOut.name) > LargestNumericName(fsEntries)
        /\ seqOut.name \notin fsEntries

\* With no entry named by the largest representable integer the sequencer
\* picks a free slot above every numeric entry.
SeqPicksFreeSlotBelowMaxInt ==
    (seqPc = "returned" /\ ~seqOut.err /\ FormatInt(MaxInt) \notin fsEntries) =>
        /\ IsDecimalName(seqOut.name)
        /\ DecimalValue(seqOut.name) > LargestNumericName(fsEntries)
        /\ seqOut.name \notin fsEntries

(***************************************************************************)
(* Properties of the watcher and the reload client (SpecWatch).            *)
(***************************************************************************)
\* The masks that hold the write flag, by their binary digits.
HasWriteFlag(op) == \E hi \in 0..7, lo \in 0..1 : op = 4 * hi + OpWrite + lo

\* The events the select has taken that are writes of the target.
TargetWritesSeen ==
    {k \in 1..Len(wSeen) : HasWriteFlag(wSeen[k].op) /\ wSeen[k].name = TargetPath}

\* C12: the callback has been invoked exactly once for each event taken
\* that is a write of the target path, and never for an event of another
\* file or one without the write flag: N writes, N invocations.
C12_OneCallbackPerTargetWrite == wCalls = Cardinality(TargetWritesSeen)

\* Two equal writes of the target in a row, then a change of mode: two
\* invocations.
C12_Witness ==
    /\ Len(wSeen) = 3
    /\ wSeen[1] = [op |-> OpWrite, name |-> TargetPath]
    /\ wSeen[2] = wSeen[1]
    /\ wSeen[3] = [op |-> OpChmod, name |-> TargetPath]
    /\ wCalls = 2

\* Once the watch is established WatchFile has returned only nil after the
\* cancellation or the error the notification library reported.
WatchReturnedForCause ==
    (wPc = "returned" /\ wRet # "setupErr") =>
        \/ wRet = "nil" /\ wCtxDone
        \/ wRet = "watchErr" /\ wErr = "taken"

\* C13: WatchFile returns nil on cancellation or the reported error on an
\* error of the notification channel, for no other cause once the watch is
\* established, and after a cancellation it eventually returns.
C13_ReturnsOnCancelOrError ==
    /\ []WatchReturnedForCause
    /\ (wCtxDone ~> (wPc = "returned"))

\* Cancelled with an event still unread, after a callback: nil is returned.
C13_Witness ==
    /\ wPc = "returned" /\ wRet = "nil" /\ wCtxDone
    /\ wCalls >= 1 /\ wEvents # <<>>

\* C18: every finished invocation of requestRerun has sent one request, to
\* /rerun of 127.0.0.1 at the client's port; a failed request is followed
\* by no second one and ends neither the loop nor WatchFile.
C18_OneRequestNoRetry ==
    /\ Len(wReqs) = wCalls - (IF wPc = "callback" THEN 1 ELSE 0)
    /\ \A k \in 1..Len(wReqs) :
          /\ wReqs[k].host = "127.0.0.1"
          /\ wReqs[k].port = wPort
          /\ wReqs[k].path = "/rerun"
    /\ (wReqs # <<>> /\ wReqs[Len(wReqs)].failed /\ wPc # "callback") =>
          \/ wPc = "loop"
          \/ wPc = "returned" /\ wRet = "nil" /\ wCtxDone
          \/ wPc = "returned" /\ wRet = "watchErr" /\ wErr = "taken"

\* A request fails, and the next write of the target sends a new one.
C18_Witness ==
    /\ Len(wReqs) = 2 /\ wReqs[1].failed /\ ~wReqs[2].failed
    /\ wCalls = 2 /\ wPc = "loop"

(***************************************************************************)
(* Properties of the preview session (Spec).                               *)
(***************************************************************************)
\* The watcher goroutine holds its subscription: WatchFile has not
\* returned and the process has not exited.
WatchSubscribed == watcher = "watching" /\ Running

\* C14: in preview, once the select has taken an interrupt the engine has
\* been sent SIGTERM, once, and whichever case the select took (interrupt
\* or the engine's own exit) the context is cancelled before Preview
\* returns, so no subscription is left when the session has ended.
C14_PreviewCancelsWatcher ==
    mode = "preview" =>
        /\ (pc \in {"p_cancel", "p_return", "done"} /\ sigRecv > 0) =>
              sigRecv = 1 /\ sigCount[1] = 1
        /\ (pc \in {"p_cancel", "p_return", "done"} /\ sigRecv = 0) =>
              1 \in Awaited /\ sigCount[1] = 0
        /\ pc \in {"p_return", "done"} => ctxCanceled
        /\ watcher = "returned" => ctxCanceled
        /\ pc = "done" => ~WatchSubscribed

\* The engine exits on its own, the context is cancelled, the watcher
\* returns and the session ends.
C14_Witness ==
    /\ mode = "preview" /\ pc = "done"
    /\ sigRecv = 0 /\ 1 \in Awaited
    /\ ctxCanceled /\ watcher = "returned"

(***************************************************************************)
(* Properties of Render's start loop and argument checks (Spec).           *)
(***************************************************************************)
\* Render has ended in the start loop: the start of worker Len(cmdBuff)
\* failed.
StartFailed == mode = "render" /\ pc = "fatal" /\ procs > 0 /\ loopI < procs
                  /\ imgNum >= procs /\ procs = NormalizeProcs(imgNum, procsArg)
                  /\ (cmdBuff # <<>> \/ loopI = 0)

\* C15: when a fatal exit has ended Render, the exit status is 1, the
\* workers launched are exactly those of the indexes below the one that
\* failed, none has been awaited, and none has been signalled or reaped.
C15_StartFailureIsFatal ==
    (mode = "render" /\ pc = "fatal") =>
        /\ exitStatus = 1
        /\ Len(cmdBuff) = loopI
        /\ \A k \in ProcIds :
              /\ k \in Launched => proc[k] \in {"running", "exited"}
              /\ k \notin Launched => proc[k] = "none"
              /\ waiter[k] = "none"
              /\ sigCount[k] = 0
        /\ consumed = {} /\ waitCh = <<>> /\ sigErr = {}
        /\ ~notified

\* The start of the third of three workers fails with two running.
C15_Witness ==
    /\ StartFailed /\ procs = 3 /\ Len(cmdBuff) = 2
    /\ exitStatus = 1
    /\ proc[1] = "running" /\ proc[2] = "running" /\ proc[3] = "none"

\* The arguments of a render invocation hold an invalid count.
InvalidCount == mode = "render" /\ (imgNum < 1 \/ procsArg < 1)

\* C16: a render invocation with imgNum < 1 or procs < 1 launches no
\* engine process and never exits with status 0.
C16_InvalidCountIsFatal ==
    InvalidCount => cmdBuff = <<>> /\ exitStatus # 0

\* With imgNum < 1 the invocation does end in a fatal exit with nothing
\* launched.
RenderInvalidImgNumIsFatal ==
    (mode = "render" /\ imgNum < 1) =>
        /\ cmdBuff = <<>>
        /\ pc \in {"r_setup", "r_check", "fatal"}
        /\ exitStatus \in {-1, 1}

(***************************************************************************)
(* Properties of the port allocation (SpecPort).                           *)
(***************************************************************************)
\* Invocation i holds the port GetPort returned and its engine has not
\* bound it yet.
PortPending(i) == portPc[i] = "got"

\* C17: while an invocation holds the port GetPort returned and its engine
\* has not bound it, nobody else has bound that port and no other
\* invocation has obtained it.
C17_PortExclusive ==
    \A i \in Previews :
        PortPending(i) =>
            /\ portBound[portOf[i]] = FreePort
            /\ \A j \in Previews \ {i} :
                  portPc[j] \in {"listening", "got", "serving"} => portOf[j] # portOf[i]

\* While GetPort's listener is open the port is the invocation's alone.
PortExclusiveWhileListening ==
    \A i \in Previews :
        portPc[i] = "listening" =>
            /\ portBound[portOf[i]] = [kind |-> "listener", inv |-> i]
            /\ \A j \in Previews \ {i} :
                  portPc[j] \in {"listening", "serving"} => portOf[j] # portOf[i]

(***************************************************************************)
(* Properties of the wait goroutines and of Render's wait loop (Spec).     *)
(***************************************************************************)
\* The processes whose completion event has been published.
Published == {k \in ProcIds : waiter[k] = "done"}

\* C19: after WaitCmdBuff(buff) with n = len(buff) there is one wait
\* goroutine for each of the n processes and none else, every published
\* event is that of a distinct process, so at most n are published, and a
\* goroutine about to publish always finds room in the channel.
C19_OneEventPerProcessNoBlocking ==
    (mode = "render" /\ pc \in {"r_wait", "done"}) =>
        /\ waitCap = Len(cmdBuff)
        /\ \A k \in ProcIds : (waiter[k] # "none") <=> (k \in Launched)
        /\ Published = {e.idx : e \in consumed} \cup {waitCh[m].idx : m \in 1..Len(waitCh)}
        /\ Cardinality(Published) = Cardinality(consumed) + Len(waitCh)
        /\ \A k \in ProcIds : waiter[k] = "sending" => Len(waitCh) < waitCap
        /\ \A k \in ProcIds : waiter[k] \in {"sending", "done"} => proc[k] = "reaped"

\* Three processes, three events published, none of them consumed yet.
C19_Witness ==
    /\ mode = "render" /\ pc = "r_wait"
    /\ Len(cmdBuff) = 3 /\ Len(waitCh) = 3
    /\ Published = {1, 2, 3}

\* C20: once all workers have been started and Render is in its wait
\* loop, Render eventually returns, whatever the interleaving of
\* interrupts and completions, when every launched process exits.
C20_RenderTerminates ==
    (mode = "render" /\ pc = "r_wait") ~> (mode = "render" /\ pc = "done")

\* Render has returned after three iterations that took one interrupt and
\* two completion events.
C20_Witness ==
    /\ mode = "render" /\ pc = "done"
    /\ procs = 3 /\ loopI = 3
    /\ sigRecv = 1 /\ Cardinality(consumed) = 2

====
